---- MODULE Spec2Model ----
(***************************************************************************)
(* State-machine model of pypi_download/main.py: the recursive download     *)
(* manager (RecursiveDownloadManager.run / recurse), the index client       *)
(* (Repository), the artifact store (Distribution.download) and the         *)
(* metadata extractor (Distribution.dependencies).                          *)
(*                                                                         *)
(* The call stack of the single Python thread is the sequence `stack`; each *)
(* action is one step of the frame on top of it.  The index server, the    *)
(* artifact server and the file system are the environment.  The index and *)
(* the served files are fixed but unknown: a page or a file is chosen when  *)
(* the first successful request for it is answered and every later request  *)
(* gets the same answer.  Every request may answer with a non-success       *)
(* status instead.                                                          *)
(***************************************************************************)
EXTENDS Integers, Sequences, FiniteSets, TLC

\* ------------------------------------------------------------------ bounds

\* most anchors on all pages of the index together
MaxAnchors == 3
\* most requirement strings (Requires-Dist) in all served files together
MaxReqs == 2
\* ParseSpec: longest requirement string, most requirement strings
MaxReqLen == 3
MaxParseReqs == 2

\* ------------------------------------------------------------- text model

\* the alphabet of requirement strings and package names
NameChars == {"a", "b", "_", "1"}
OtherChars == {">", "-", " "}
Chars == NameChars \cup OtherChars

\* requests' base URL of the index (argparse default of --repository)
BaseUrl == "https://pypi.org"

RECURSIVE Reverse(_)
Reverse(s) == IF s = <<>> THEN <<>> ELSE Append(Reverse(Tail(s)), Head(s))

\* mutant of name_pattern_match: re.search in place of re.match, the first
\* run of name characters anywhere in the string
RECURSIVE name_pattern_search(_)
name_pattern_search(requirement) ==
    IF requirement = <<>> THEN [matched |-> FALSE, group1 |-> <<>>]
    ELSE IF Head(requirement) \in NameChars
         THEN LET n == CHOOSE m \in 1..Len(requirement) :
                        /\ \A i \in 1..m : requirement[i] \in NameChars
                        /\ m = Len(requirement) \/ requirement[m + 1] \notin NameChars
              IN  [matched |-> TRUE, group1 |-> SubSeq(requirement, 1, n)]
         ELSE name_pattern_search(Tail(requirement))

\* re group(1) of ([a-zA-Z0-9_]+): the longest leading run of name characters
RECURSIVE LeadingName(_)
LeadingName(s) ==
    IF s = <<>> \/ Head(s) \notin NameChars THEN <<>>
    ELSE <<Head(s)>> \o LeadingName(Tail(s))

\* name_pattern.match(requirement): the match object, or no match
name_pattern_match(requirement) ==
    LET g == LeadingName(requirement)
    IN  [matched |-> g # <<>>, group1 |-> g]

\* urllib.parse.quote on the alphabet: letters, digits and "_", "-" are
\* never quoted, the others are percent-encoded
QuoteChar(c) ==
    IF c \in NameChars \cup {"-"} THEN <<c>>
    ELSE IF c = ">" THEN <<"%", "3", "E">>
    ELSE <<"%", "2", "0">>

RECURSIVE quote(_)
quote(s) == IF s = <<>> THEN <<>> ELSE QuoteChar(Head(s)) \o quote(Tail(s))

\* ------------------------------------------------------------- data model

Package(name) == [name |-> name]

Repository == [base_url |-> BaseUrl]

Distribution(package, full_name, url) ==
    [package |-> package, full_name |-> full_name,
     repository |-> Repository, url |-> url]

\* the loop variable of run before its first assignment
Unbound == Distribution(Package(<<>>), "", "")

\* Distribution.dest: download_dir / package.name / full_name
dest(distribution) == <<distribution.package.name, distribution.full_name>>

\* ------------------------------------------------------------ environment

Names == {<<"a">>, <<"b">>}
RootName == <<"a">>
FullNames == {"f1", "f2"}
Urls == {"u1", "u2"}

Anchor == [text : FullNames, href : Urls]

SeqUpTo(S, n) == UNION {[1..m -> S] : m \in 0..n}

AllPages == SeqUpTo(Anchor, MaxAnchors)

\* requirement strings the servers' metadata is made of
Reqs == {<<"a">>, <<"b", ">", "1">>, <<">", "1">>}

NoMetadata == [kind |-> "none", requires_dist |-> <<>>]
Absent == [kind |-> "absent", requires_dist |-> <<>>]
Metadata(reqs) == [kind |-> "meta", requires_dist |-> reqs]

\* what a served file can be: without metadata, or with requirements (an
\* empty Requires-Dist reads the same as no metadata, see dependencies)
Contents == {NoMetadata} \cup {Metadata(r) : r \in SeqUpTo(Reqs, MaxReqs) \ {<<>>}}

AllDistributions ==
    {Distribution(Package(n), f, u) : n \in Names, f \in FullNames, u \in Urls}

Dests == Names \X FullNames

\* --------------------------------------------------- metadata extraction

\* the loop of Distribution.dependencies: `acc` is the list built so far by
\* dependencies.insert(0, ...); a requirement without a match raises
RECURSIVE ParseRequirements(_, _)
ParseRequirements(reqs, acc) ==
    IF reqs = <<>> THEN [ok |-> TRUE, value |-> acc]
    ELSE LET match == name_pattern_match(Head(reqs))
         IN  IF ~match.matched THEN [ok |-> FALSE, value |-> <<>>]
             ELSE ParseRequirements(Tail(reqs), <<Package(match.group1)>> \o acc)

\* Distribution.dependencies on the metadata pkginfo reads from the file at
\* dest: [ok, value]; ok = FALSE is the ValueError
dependencies(file) ==
    IF file.kind # "meta" \/ file.requires_dist = <<>>
    THEN [ok |-> TRUE, value |-> <<>>]
    ELSE ParseRequirements(file.requires_dist, <<>>)

\* ------------------------------------------------------------------ state

VARIABLES
    index,      \* environment: endpoint name -> anchors of /simple/<name>,
                \* once a request for it was answered
    served,     \* environment: url -> the file a successful GET returns,
                \* once a request for it was answered
    disk,       \* file system: dest -> content of the file, or Absent
    dirs,       \* file system: directories that exist under download_dir
    visited,    \* RecursiveDownloadManager.visited
    load_bar,   \* RecursiveDownloadManager.load_bar: total, n, desc
    stack,      \* call stack: frames of run and recurse, innermost last
    phase,      \* "idle", "running", "done" (run returned), "failed" (raised)
    error,      \* what was raised: "none", "http", "parse", "unbound"
    prior,      \* how the run before this one ended on the same download_dir:
                \* "none" (this is the first), "done" or "failed"
    calls,      \* history of this run: per Distribution, the number of
                \* visited.add, download(), requests.get(url), dependencies
    listings,   \* history of this run: index listing requests sent
    parse       \* ParseSpec only: input and result of one dependencies call

vars == <<index, served, disk, dirs, visited, load_bar, stack, phase, error,
          prior, calls, listings, parse>>

env == <<index, served>>

NoCalls == [d \in AllDistributions |-> [add |-> 0, download |-> 0, get |-> 0, read |-> 0]]

Count(d, what) == [calls EXCEPT ![d][what] = @ + 1]

\* tqdm.tqdm(): total is None (the empty sequence here), n = 0
NewLoadBar == [total |-> <<>>, n |-> 0, desc |-> ""]

NoParse == [state |-> "off", metadata |-> NoMetadata, result |-> [ok |-> TRUE, value |-> <<>>]]

Frame(fn, pc, distribution) ==
    [fn |-> fn, pc |-> pc, distribution |-> distribution, distributions |-> <<>>,
     i |-> 1, dependencies |-> <<>>, j |-> 1, dds |-> <<>>, k |-> 1]

Top == stack[Len(stack)]
At(fn, pc) == phase = "running" /\ stack # <<>> /\ Top.fn = fn /\ Top.pc = pc
SetTop(f) == [stack EXCEPT ![Len(stack)] = f]
Pop == SubSeq(stack, 1, Len(stack) - 1)

\* mutant of Raise: the exception is caught and the step is tried again
Raise_retry(kind) ==
    /\ phase' = phase
    /\ error' = kind
    /\ stack' = stack

\* an exception: nothing in the program catches it, the run ends
Raise(kind) ==
    /\ phase' = "failed"
    /\ error' = kind
    /\ stack' = <<>>

\* return of the top frame; run's return ends recursivly_download (wait()
\* joins the empty thread list)
Return ==
    /\ stack' = Pop
    /\ phase' = IF Len(stack) = 1 THEN "done" ELSE phase
    /\ error' = error

\* mutant of distributions: the loop over the anchors stops one short
distributions_short(page, package) ==
    Reverse([n \in 1..(Len(page) - 1) |->
                Distribution(package, page[n].text, page[n].href)])

\* Repository.distributions on a successful response: one Distribution per
\* anchor, each inserted at the front
distributions(page, package) ==
    Reverse([n \in 1..Len(page) |->
                Distribution(package, page[n].text, page[n].href)])

\* a page or a file of the environment no request has been answered for
Unknown == [known |-> FALSE, value |-> <<>>]
Known(v) == [known |-> TRUE, value |-> v]

RECURSIVE SumLen(_, _)
SumLen(f, S) ==
    IF S = {} THEN 0
    ELSE LET x == CHOOSE y \in S : TRUE
         IN  (IF f[x].known THEN Len(f[x].value) ELSE 0) + SumLen(f, S \ {x})

\* File names and URLs are opaque to the program (it only compares them), so
\* the environment is taken up to renaming: the first anchor of a page has
\* the text "f1", and the first href the index ever shows is "u1"
Canonical(page) ==
    page # <<>> =>
        /\ page[1].text = "f1"
        /\ SumLen(index, Names) = 0 => page[1].href = "u1"

\* the server's answers to GET /simple/<quote(name)> with a success status:
\* none when the index has no such endpoint (not found), the page answered
\* before, or else any page the bound on the index leaves room for
Listed(package) == quote(package.name) \in DOMAIN index
Pages(package) ==
    LET e == quote(package.name)
    IN  IF ~Listed(package) THEN {}
        ELSE IF index[e].known THEN {index[e].value}
        ELSE {p \in AllPages : /\ Len(p) + SumLen(index, Names) <= MaxAnchors
                               /\ Canonical(p)}

\* the artifact server's answers to GET url with a success status
ReqsServed ==
    SumLen([u \in Urls |-> IF served[u].known THEN Known(served[u].value.requires_dist)
                            ELSE Unknown], Urls)
Files(url) ==
    IF served[url].known THEN {served[url].value}
    ELSE {c \in Contents : Len(c.requires_dist) + ReqsServed <= MaxReqs}

\* ------------------------------------------------------------------ Init

Init ==
    /\ index = [n \in Names |-> Unknown]
    /\ served = [u \in Urls |-> Unknown]
    /\ disk = [p \in Dests |-> Absent]
    /\ dirs = {}
    /\ visited = {}
    /\ load_bar = NewLoadBar
    /\ stack = <<>>
    /\ phase = "idle"
    /\ error = "none"
    /\ prior = "none"
    /\ calls = NoCalls
    /\ listings = 0
    /\ parse = NoParse

\* ------------------------------------------------------------------ run

\* recursivly_download: mkdir of download_dir, a new manager, manager.run().
\* The program can be run again on the download_dir a run has left.
recursivly_download ==
    /\ phase # "running"
    /\ prior' = IF phase = "idle" THEN "none" ELSE phase
    /\ dirs' = dirs \cup {<<>>}
    /\ visited' = {}
    /\ load_bar' = NewLoadBar
    /\ stack' = <<Frame("run", "list", Unbound)>>
    /\ phase' = "running"
    /\ error' = "none"
    /\ calls' = NoCalls
    /\ listings' = 0
    /\ UNCHANGED <<env, disk, parse>>

\* load_bar.total or 0 + len(distributions)
SeedTotal(total, n) == IF total = <<>> \/ total = <<0>> THEN <<0 + n>> ELSE total

\* run: distributions = list(repository.distributions(self.package)) and the
\* seeding of load_bar.total
RunList ==
    /\ At("run", "list")
    /\ listings' = listings + 1
    /\ \/ \E page \in Pages(Package(RootName)) :
            LET ds == distributions(page, Package(RootName))
            IN  /\ index' = [index EXCEPT ![quote(RootName)] = Known(page)]
                /\ stack' = SetTop([Top EXCEPT !.distributions = ds, !.pc = "loop"])
                /\ load_bar' = [load_bar EXCEPT !.total = SeedTotal(@, Len(ds))]
                /\ UNCHANGED <<phase, error>>
       \/ /\ Raise("http")
          /\ UNCHANGED <<index, load_bar>>
    /\ UNCHANGED <<served, disk, dirs, visited, prior, calls, parse>>

\* run: for distribution in distributions: self.recurse(distribution)
RunLoop ==
    /\ At("run", "loop")
    /\ IF Top.i <= Len(Top.distributions)
       THEN LET d == Top.distributions[Top.i]
            IN  stack' = Append(SetTop([Top EXCEPT !.distribution = d, !.i = @ + 1]),
                                Frame("recurse", "enter", d))
       ELSE stack' = SetTop([Top EXCEPT !.pc = "deps"])
    /\ UNCHANGED <<env, disk, dirs, visited, load_bar, phase, error, prior, calls,
                   listings, parse>>

\* one evaluation of distribution.dependencies by the top frame, which then
\* iterates over the result
ReadDependencies ==
    LET d == Top.distribution
        r == dependencies(disk[dest(d)])
    IN  /\ calls' = Count(d, "read")
        /\ IF r.ok
           THEN /\ stack' = SetTop([Top EXCEPT !.dependencies = r.value,
                                               !.j = 1, !.pc = "dep"])
                /\ UNCHANGED <<phase, error>>
           ELSE Raise("parse")
        /\ UNCHANGED <<env, disk, dirs, visited, load_bar, prior, listings, parse>>

\* run: for dependency in distribution.dependencies, with the loop variable
\* of the first loop; it is not bound when that loop had nothing to iterate
RunDependencies ==
    /\ At("run", "deps")
    /\ IF Top.distribution = Unbound
       THEN /\ Raise("unbound")
            /\ UNCHANGED <<env, disk, dirs, visited, load_bar, prior, calls,
                           listings, parse>>
       ELSE ReadDependencies

\* for dependency in ...: the next dependency's listing request, or the end
\* of the loop and the return of the frame
DepNext ==
    /\ IF Top.j <= Len(Top.dependencies)
       THEN LET dependency == Top.dependencies[Top.j]
            IN  /\ listings' = listings + 1
                /\ \/ \E page \in Pages(dependency) :
                        /\ index' = [index EXCEPT ![quote(dependency.name)] = Known(page)]
                        /\ stack' = SetTop([Top EXCEPT
                                !.dds = distributions(page, dependency),
                                !.k = 1, !.j = @ + 1, !.pc = "dd"])
                        /\ UNCHANGED <<phase, error>>
                   \/ /\ Raise("http")
                      /\ UNCHANGED index
       ELSE /\ Return
            /\ UNCHANGED <<index, listings>>
    /\ UNCHANGED <<served, disk, dirs, visited, load_bar, prior, calls, parse>>

\* mutant of DdNext: takes the first listed distribution before the loop, an
\* IndexError when the dependency has none
DdNext_first ==
    /\ IF Top.dds = <<>>
       THEN Raise("index")
       ELSE /\ UNCHANGED <<phase, error>>
            /\ IF Top.k <= Len(Top.dds)
               THEN stack' = Append(SetTop([Top EXCEPT !.k = @ + 1]),
                                    Frame("recurse", "enter", Top.dds[Top.k]))
               ELSE stack' = SetTop([Top EXCEPT !.pc = "dep"])
    /\ UNCHANGED <<env, disk, dirs, visited, load_bar, prior, calls, listings, parse>>

\* for dependency_distribution in ...: self.recurse(dependency_distribution)
DdNext ==
    /\ IF Top.k <= Len(Top.dds)
       THEN stack' = Append(SetTop([Top EXCEPT !.k = @ + 1]),
                            Frame("recurse", "enter", Top.dds[Top.k]))
       ELSE stack' = SetTop([Top EXCEPT !.pc = "dep"])
    /\ UNCHANGED <<env, disk, dirs, visited, load_bar, phase, error, prior, calls,
                   listings, parse>>

RunDepNext == At("run", "dep") /\ DepNext

RunDdNext == At("run", "dd") /\ DdNext

\* -------------------------------------------------------------- recurse

\* mutant of RecurseEnter: no visited guard
RecurseEnter_unguarded ==
    /\ At("recurse", "enter")
    /\ LET d == Top.distribution
       IN  /\ visited' = visited \cup {d}
           /\ load_bar' = [load_bar EXCEPT !.desc = d.full_name]
           /\ calls' = Count(d, "add")
           /\ stack' = SetTop([Top EXCEPT !.pc = "download"])
           /\ UNCHANGED <<phase, error>>
    /\ UNCHANGED <<env, disk, dirs, prior, listings, parse>>

\* mutant of RecurseEnter: the new distribution replaces the visited-set
RecurseEnter_assign ==
    /\ At("recurse", "enter")
    /\ LET d == Top.distribution
       IN  IF d \in visited
           THEN /\ Return
                /\ UNCHANGED <<visited, load_bar, calls>>
           ELSE /\ visited' = {d}
                /\ load_bar' = [load_bar EXCEPT !.desc = d.full_name]
                /\ calls' = Count(d, "add")
                /\ stack' = SetTop([Top EXCEPT !.pc = "download"])
                /\ UNCHANGED <<phase, error>>
    /\ UNCHANGED <<env, disk, dirs, prior, listings, parse>>

\* mutant of RecurseEnter: load_bar.update() ahead of the visited guard
RecurseEnter_counting ==
    /\ At("recurse", "enter")
    /\ LET d == Top.distribution
       IN  IF d \in visited
           THEN /\ Return
                /\ load_bar' = [load_bar EXCEPT !.n = @ + 1]
                /\ UNCHANGED <<visited, calls>>
           ELSE /\ visited' = visited \cup {d}
                /\ load_bar' = [load_bar EXCEPT !.desc = d.full_name, !.n = @ + 1]
                /\ calls' = Count(d, "add")
                /\ stack' = SetTop([Top EXCEPT !.pc = "download"])
                /\ UNCHANGED <<phase, error>>
    /\ UNCHANGED <<env, disk, dirs, prior, listings, parse>>

\* mutant of RecurseEnter: distribution.download() is left out
RecurseEnter_nodownload ==
    /\ At("recurse", "enter")
    /\ LET d == Top.distribution
       IN  IF d \in visited
           THEN /\ Return
                /\ UNCHANGED <<visited, load_bar, calls>>
           ELSE /\ visited' = visited \cup {d}
                /\ load_bar' = [load_bar EXCEPT !.desc = d.full_name]
                /\ calls' = Count(d, "add")
                /\ stack' = SetTop([Top EXCEPT !.pc = "update"])
                /\ UNCHANGED <<phase, error>>
    /\ UNCHANGED <<env, disk, dirs, prior, listings, parse>>

\* recurse: the visited guard; a new distribution is added to visited and
\* becomes the description of the bar
RecurseEnter ==
    /\ At("recurse", "enter")
    /\ LET d == Top.distribution
       IN  IF d \in visited
           THEN /\ Return
                /\ UNCHANGED <<visited, load_bar, calls>>
           ELSE /\ visited' = visited \cup {d}
                /\ load_bar' = [load_bar EXCEPT !.desc = d.full_name]
                /\ calls' = Count(d, "add")
                /\ stack' = SetTop([Top EXCEPT !.pc = "download"])
                /\ UNCHANGED <<phase, error>>
    /\ UNCHANGED <<env, disk, dirs, prior, listings, parse>>

\* mutant of DownloadBegin: no existence test
DownloadBegin_always ==
    /\ At("recurse", "download")
    /\ LET d == Top.distribution
       IN  /\ calls' = Count(d, "download")
           /\ dirs' = dirs \cup {<<>>, <<d.package.name>>}
           /\ stack' = SetTop([Top EXCEPT !.pc = "get"])
    /\ UNCHANGED <<env, disk, visited, load_bar, phase, error, prior, listings, parse>>

\* Distribution.download up to the existence test: mkdir of the parents,
\* return when dest exists
DownloadBegin ==
    /\ At("recurse", "download")
    /\ LET d == Top.distribution
       IN  /\ calls' = Count(d, "download")
           /\ dirs' = dirs \cup {<<>>, <<d.package.name>>}
           /\ stack' = SetTop([Top EXCEPT !.pc =
                    IF disk[dest(d)] # Absent THEN "update" ELSE "get"])
    /\ UNCHANGED <<env, disk, visited, load_bar, phase, error, prior, listings, parse>>

\* mutant of DownloadGet: the response is not written to dest
DownloadGet_nowrite ==
    /\ At("recurse", "get")
    /\ LET d == Top.distribution
       IN  /\ calls' = Count(d, "get")
           /\ \/ \E file \in Files(d.url) :
                    /\ served' = [served EXCEPT ![d.url] = Known(file)]
                    /\ disk' = disk
                    /\ stack' = SetTop([Top EXCEPT !.pc = "update"])
                    /\ UNCHANGED <<phase, error>>
              \/ /\ Raise("http")
                 /\ UNCHANGED <<served, disk>>
    /\ UNCHANGED <<index, dirs, visited, load_bar, prior, listings, parse>>

\* mutant of DownloadGet: dest is opened for writing ahead of raise_for_status
DownloadGet_partial ==
    /\ At("recurse", "get")
    /\ LET d == Top.distribution
       IN  /\ calls' = Count(d, "get")
           /\ \/ \E file \in Files(d.url) :
                    /\ served' = [served EXCEPT ![d.url] = Known(file)]
                    /\ disk' = [disk EXCEPT ![dest(d)] = file]
                    /\ stack' = SetTop([Top EXCEPT !.pc = "update"])
                    /\ UNCHANGED <<phase, error>>
              \/ /\ Raise("http")
                 /\ disk' = [disk EXCEPT ![dest(d)] = NoMetadata]
                 /\ UNCHANGED served
    /\ UNCHANGED <<index, dirs, visited, load_bar, prior, listings, parse>>

\* Distribution.download: requests.get(self.url), raise_for_status, and the
\* write of the response to dest
DownloadGet ==
    /\ At("recurse", "get")
    /\ LET d == Top.distribution
       IN  /\ calls' = Count(d, "get")
           /\ \/ \E file \in Files(d.url) :
                    /\ served' = [served EXCEPT ![d.url] = Known(file)]
                    /\ disk' = [disk EXCEPT ![dest(d)] = file]
                    /\ stack' = SetTop([Top EXCEPT !.pc = "update"])
                    /\ UNCHANGED <<phase, error>>
              \/ /\ Raise("http")
                 /\ UNCHANGED <<served, disk>>
    /\ UNCHANGED <<index, dirs, visited, load_bar, prior, listings, parse>>

\* mutant of Update: the bar is not updated
Update_skip ==
    /\ At("recurse", "update")
    /\ load_bar' = load_bar
    /\ stack' = SetTop([Top EXCEPT !.pc = "total"])
    /\ UNCHANGED <<env, disk, dirs, visited, phase, error, prior, calls, listings, parse>>

\* recurse: load_bar.update()
Update ==
    /\ At("recurse", "update")
    /\ load_bar' = [load_bar EXCEPT !.n = @ + 1]
    /\ stack' = SetTop([Top EXCEPT !.pc = "total"])
    /\ UNCHANGED <<env, disk, dirs, visited, phase, error, prior, calls, listings, parse>>

\* recurse: load_bar.total += len(distribution.dependencies); refresh
TotalAdd ==
    /\ At("recurse", "total")
    /\ LET d == Top.distribution
           r == dependencies(disk[dest(d)])
       IN  /\ calls' = Count(d, "read")
           /\ IF r.ok
              THEN /\ load_bar' = [load_bar EXCEPT !.total = <<@[1] + Len(r.value)>>]
                   /\ stack' = SetTop([Top EXCEPT !.pc = "deps"])
                   /\ UNCHANGED <<phase, error>>
              ELSE /\ Raise("parse")
                   /\ UNCHANGED load_bar
    /\ UNCHANGED <<env, disk, dirs, visited, prior, listings, parse>>

\* recurse: dependencies = distribution.dependencies
RecurseDependencies == At("recurse", "deps") /\ ReadDependencies

RecurseDepNext == At("recurse", "dep") /\ DepNext

\* mutant of RecurseDdNext: recurse does not descend into the distributions of
\* a dependency
RecurseDdNext_skip ==
    /\ At("recurse", "dd")
    /\ stack' = SetTop([Top EXCEPT !.pc = "dep"])
    /\ UNCHANGED <<env, disk, dirs, visited, load_bar, phase, error, prior, calls,
                   listings, parse>>

RecurseDdNext == At("recurse", "dd") /\ DdNext

\* ------------------------------------------------------- specifications

\* ParseSpec: Distribution.dependencies as a function of the metadata of the
\* file at dest, on every metadata within the bounds
ParseChars == {"a", "-"}
ParseReqs == SeqUpTo(ParseChars, MaxReqLen)
ParseInputs == {NoMetadata} \cup {Metadata(r) : r \in SeqUpTo(ParseReqs, MaxParseReqs)}

ParseInit ==
    /\ parse \in {[state |-> "input", metadata |-> m, result |-> NoParse.result] :
                    m \in ParseInputs}
    /\ index = [n \in Names |-> Unknown]
    /\ served = [u \in Urls |-> Unknown]
    /\ disk = [p \in Dests |-> Absent]
    /\ dirs = {}
    /\ visited = {}
    /\ load_bar = NewLoadBar
    /\ stack = <<>>
    /\ phase = "idle"
    /\ error = "none"
    /\ prior = "none"
    /\ calls = NoCalls
    /\ listings = 0

ParseCall ==
    /\ parse.state = "input"
    /\ parse' = [parse EXCEPT !.state = "done", !.result = dependencies(parse.metadata)]
    /\ UNCHANGED <<index, served, disk, dirs, visited, load_bar, stack, phase, error,
                   prior, calls, listings>>

ParseNext == ParseCall

ParseSpec == ParseInit /\ [][ParseNext]_vars

\* the steps of a run in progress
Step ==
    \/ RunList
    \/ RunLoop
    \/ RunDependencies
    \/ RunDepNext
    \/ RunDdNext
    \/ RecurseEnter
    \/ DownloadBegin
    \/ DownloadGet
    \/ Update
    \/ TotalAdd
    \/ RecurseDependencies
    \/ RecurseDepNext
    \/ RecurseDdNext

Next == recursivly_download \/ Step

Spec == Init /\ [][Next]_vars

\* the interpreter keeps executing a run that was started
FairSpec == Spec /\ WF_vars(Step)

\* ------------------------------------------------------------ properties

Running == phase = "running"
Parent == stack[Len(stack) - 1]

\* the artifacts the index lists for a package, as far as it has answered
ArtifactsOf(package) ==
    LET e == quote(package.name)
    IN  IF e \in DOMAIN index /\ index[e].known
        THEN {Distribution(package, index[e].value[n].text, index[e].value[n].href) :
                n \in 1..Len(index[e].value)}
        ELSE {}

\* the packages an artifact depends on, read from its file as it is on disk
DependenciesOf(d) ==
    LET r == dependencies(disk[dest(d)])
    IN  IF r.ok THEN {r.value[n] : n \in 1..Len(r.value)} ELSE {}

Successors(d) == UNION {ArtifactsOf(p) : p \in DependenciesOf(d)}

RECURSIVE Closure(_)
Closure(S) ==
    LET T == S \cup UNION {Successors(d) : d \in S}
    IN  IF T = S THEN S ELSE Closure(T)

\* the least set with the root package's artifacts that is closed under
\* "listed for a package named in the dependencies of"
Reachable == Closure(ArtifactsOf(Package(RootName)))

\* C1 (dedup): in a run, Distribution.download is invoked at most once for
\* every Distribution, whatever the number of dependency paths that lead to it
\* and however often a dependency name is declared.
C1_DownloadAtMostOnce == \A d \in AllDistributions : calls[d].download <= 1

\* a recurse call for an artifact that was downloaded already, made for the
\* second declaration of one dependency name in one artifact's metadata
C1_Witness ==
    /\ At("recurse", "enter")
    /\ Len(stack) >= 3
    /\ Top.distribution \in visited
    /\ calls[Top.distribution].download = 1
    /\ Parent.fn = "recurse"
    /\ Len(Parent.dependencies) = 2
    /\ Parent.dependencies[1] = Parent.dependencies[2]
    /\ Parent.j = 3

\* two visited artifacts of two packages that depend on each other's package
OnCycle ==
    \E d1, d2 \in visited :
        /\ d1.package # d2.package
        /\ d2.package \in DependenciesOf(d1)
        /\ d1.package \in DependenciesOf(d2)

\* C2 (termination on cycles): a run that was started ends, and when it ends
\* without an error every reachable artifact, the artifacts of dependency
\* cycles among them, was inserted into visited exactly once.
C2_Terminates ==
    /\ []<>(~Running)
    /\ [](phase = "done" => \A d \in Reachable : d \in visited /\ calls[d].add = 1)

C2_Witness == phase = "done" /\ OnCycle

\* C3 (completeness): when a run completes without error the visited-set is
\* exactly the set of reachable artifacts.
C3_VisitedIsReachable == phase = "done" => visited = Reachable

\* a completed run over two packages, the second reached through a dependency
C3_Witness ==
    /\ phase = "done"
    /\ \E d1, d2 \in visited :
        /\ d1.package = Package(RootName)
        /\ d2.package # Package(RootName)
        /\ d2.package \in DependenciesOf(d1)

\* C4 (idempotence): no step sends a GET for an artifact whose destination
\* file exists, and no step changes a file that exists; so a run on the
\* download_dir of a completed run sends no GET for the files that run left.
C4_NoGetWhenPresent ==
    [][\A d \in AllDistributions :
          disk[dest(d)] # Absent =>
              /\ calls'[d].get <= calls[d].get
              /\ disk'[dest(d)] = disk[dest(d)]]_vars

\* a run after a completed run, completed with download called and no GET
\* sent for every artifact
C4_Witness ==
    /\ prior = "done"
    /\ phase = "done"
    /\ Cardinality(visited) >= 2
    /\ \A d \in visited : calls[d].download = 1 /\ calls[d].get = 0

\* C5 (identity): two artifacts in the visited-set with the same package and
\* the same full name are the same node.
C5_IdentityByPackageAndName ==
    \A d1, d2 \in visited :
        (d1.package = d2.package /\ d1.full_name = d2.full_name) => d1 = d2

\* C6 (transport errors are fatal): a step in which a request is answered
\* with a non-success status ends the run there, leaving visited, disk and the
\* bar as they were; a failed run takes no further step (the only step from
\* its end state is a new run); no step removes or changes a file on disk.
C6_TransportErrorFatal ==
    [][/\ (Running /\ error' = "http") =>
            /\ phase' = "failed"
            /\ stack' = <<>>
            /\ visited' = visited /\ disk' = disk /\ load_bar' = load_bar
       /\ phase = "failed" =>
            /\ phase' = "running" /\ stack' = <<Frame("run", "list", Unbound)>>
            /\ visited' = {} /\ calls' = NoCalls /\ listings' = 0
            /\ disk' = disk
       /\ \A p \in Dests : disk[p] # Absent => disk'[p] = disk[p]]_vars

\* a run ended by the failed download of one artifact after the file of
\* another was written
C6_Witness ==
    /\ phase = "failed" /\ error = "http"
    /\ \E d1, d2 \in visited :
        /\ calls[d1].get = 1 /\ disk[dest(d1)] # Absent
        /\ calls[d2].get = 1 /\ disk[dest(d2)] = Absent

\* the listing of the dependency the top frame asked for last has no artifact
ZeroListed == Running /\ stack # <<>> /\ Top.pc = "dd" /\ Top.dds = <<>> /\ Top.k = 1

\* the top frame is about to ask for the listing of a dependency
NextDependency == Running /\ stack # <<>> /\ Top.pc = "dep" /\ Top.j <= Len(Top.dependencies)

\* C7 (missing index entry): a listing with zero artifacts for a dependency is
\* no failure; it adds nothing to visited, causes no download, and the frame
\* goes on with its next dependency.
C7_ZeroArtifactsNoFailure ==
    [][/\ (/\ NextDependency
           /\ ~index[quote(Top.dependencies[Top.j].name)].known
           /\ index'[quote(Top.dependencies[Top.j].name)] = Known(<<>>)) =>
                /\ ZeroListed' /\ error' = "none"
                /\ Len(stack') = Len(stack)
                /\ visited' = visited /\ calls' = calls /\ disk' = disk
       /\ ZeroListed =>
                /\ phase' = "running" /\ error' = "none"
                /\ Len(stack') = Len(stack)
                /\ Top'.pc = "dep" /\ Top'.j = Top.j
                /\ Top'.dependencies = Top.dependencies
                /\ visited' = visited /\ calls' = calls /\ disk' = disk]_vars

\* after a dependency with zero artifacts, the frame has listed its next
\* dependency and is about to recurse into its artifacts, one not visited so far
C7_Witness ==
    /\ Running /\ stack # <<>> /\ Top.pc = "dd"
    /\ Top.j = 3 /\ Top.k = 1 /\ Top.dds # <<>>
    /\ \E n \in 1..Len(Top.dds) : Top.dds[n] \notin visited
    /\ ArtifactsOf(Top.dependencies[1]) = {}
    /\ index[quote(Top.dependencies[1].name)].known

\* n is the longest leading run of name characters of the string r
IsLeadingRun(n, r) ==
    \E m \in 0..Len(r) :
        /\ n = SubSeq(r, 1, m)
        /\ \A i \in 1..m : r[i] \in NameChars
        /\ m = Len(r) \/ r[m + 1] \notin NameChars

\* C8 (requirement parsing): without metadata or requirements the result is
\* the empty list; a requirement that does not start with a name character
\* makes the call fail; else there is one Package per requirement string, named
\* by the string's longest leading run of name characters (in the code's
\* order, the last requirement first), duplicates kept.
C8_RequirementParsing ==
    parse.state = "done" =>
        LET reqs == parse.metadata.requires_dist
            r == parse.result
        IN  IF parse.metadata.kind # "meta" \/ reqs = <<>>
            THEN r.ok /\ r.value = <<>>
            ELSE IF \E i \in 1..Len(reqs) : reqs[i] = <<>> \/ reqs[i][1] \notin NameChars
                 THEN ~r.ok
                 ELSE /\ r.ok
                      /\ Len(r.value) = Len(reqs)
                      /\ \A i \in 1..Len(reqs) :
                            IsLeadingRun(r.value[Len(reqs) + 1 - i].name, reqs[i])

\* two requirements of the same name, one with a specifier after the name
C8_Witness ==
    /\ parse.state = "done"
    /\ parse.metadata = Metadata(<< <<"a", "-", "a">>, <<"a">> >>)
    /\ parse.result = [ok |-> TRUE, value |-> <<Package(<<"a">>), Package(<<"a">>)>>]

\* C9 (progress total): when a run completes without error the bar's total
\* equals its completed count.
C9_TotalMatchesCompleted == phase = "done" => load_bar.total = <<load_bar.n>>

\* C10 (metadata inspected once): in a run, Distribution.dependencies is
\* evaluated at most once for every Distribution.
C10_ReadAtMostOnce == \A d \in AllDistributions : calls[d].read <= 1

\* C11 (visited only grows): every step of a run, the step that aborts it
\* included, leaves the visited-set a superset of what it was.
C11_VisitedGrows == [][Running => visited \subseteq visited']_vars

\* a run aborted by an error with two artifacts in the visited-set
C11_Witness == phase = "failed" /\ Cardinality(visited) >= 2

\* C12 (unique destination): two distinct Distributions in the visited-set
\* have distinct destination paths.
C12_UniqueDest ==
    \A d1, d2 \in visited : d1 # d2 => dest(d1) # dest(d2)

\* recurse was called with an artifact that is in the visited-set
Revisit == At("recurse", "enter") /\ Top.distribution \in visited

\* C14 (revisit is a no-op): recurse on an artifact in the visited-set returns
\* at once: the visited-set, the files and directories, the bar, and the
\* history of downloads, GETs, metadata reads and index requests stay as
\* they are, and the caller goes on.
C14_RevisitNoOp ==
    [][Revisit =>
        /\ stack' = Pop
        /\ phase' = "running" /\ error' = "none"
        /\ UNCHANGED <<visited, disk, dirs, load_bar, calls, listings, index, served>>]_vars

\* the second visit on a dependency cycle: recurse is called with an artifact
\* that a frame further down the stack is still expanding
C14_Witness ==
    /\ Revisit
    /\ \E n \in 1..(Len(stack) - 1) :
        /\ stack[n].fn = "recurse"
        /\ stack[n].distribution = Top.distribution

\* the step is an evaluation of d.dependencies
ReadOf(d) == calls'[d].read = calls[d].read + 1

\* the step is the call of d.download()
DownloadOf(d) == calls'[d].download = calls[d].download + 1

\* C15 (download precedes metadata extraction): every evaluation of an
\* artifact's dependencies, in recurse and in the trailing loop of run, comes
\* after its download was called and has returned without an error, with its
\* file at the destination; and download is called for an artifact that is in
\* the visited-set.
C15_DownloadBeforeRead ==
    [][\A d \in AllDistributions :
        /\ ReadOf(d) =>
            /\ Running /\ Top.distribution = d
            /\ Top.pc \notin {"enter", "download", "get"}
            /\ calls[d].download = 1
            /\ calls[d].get = 1 => served[d.url].known
            /\ disk[dest(d)] # Absent
            /\ disk[dest(d)] \in Contents
        /\ DownloadOf(d) =>
            /\ d \in visited /\ calls[d].add = 1
            /\ calls[d].download = 0 /\ calls[d].read = 0]_vars

\* the trailing loop of run has read the dependencies of an artifact that
\* this run has fetched and recurse has read twice
C15_Witness ==
    /\ At("run", "dep")
    /\ calls[Top.distribution].get = 1
    /\ calls[Top.distribution].read = 3

\* the index has answered the request for the root package with a page
\* without artifacts
RootEmpty ==
    /\ index[quote(RootName)].known
    /\ index[quote(RootName)].value = <<>>

\* C16 (root package with no artifacts): when the index lists no artifact for
\* the root package, the run ends without an error, with an empty
\* visited-set, no download, completed 0 and total 0.
C16_EmptyRootTerminates ==
    (RootEmpty /\ phase \in {"done", "failed"} /\ error # "http") =>
        /\ phase = "done" /\ error = "none"
        /\ visited = {}
        /\ \A d \in AllDistributions : calls[d].download = 0
        /\ load_bar.n = 0 /\ load_bar.total = <<0>>

\* the top frame is a recurse that has added its artifact to the visited-set
\* and has not updated the bar yet
BeforeUpdate ==
    Running /\ stack # <<>> /\ Top.fn = "recurse" /\ Top.pc \in {"download", "get", "update"}

\* C17 (completed tracks visited): the bar's completed count is the size of
\* the visited-set, or one less between the insertion of an artifact and the
\* update of the bar (for good when the download in between fails); when a
\* run completes without error the two are equal.
C17_CompletedTracksVisited ==
    /\ load_bar.n \in {Cardinality(visited), Cardinality(visited) - 1}
    /\ Running => (load_bar.n = Cardinality(visited) - 1 <=> BeforeUpdate)
    /\ load_bar.n = Cardinality(visited) - 1 =>
            BeforeUpdate \/ (phase = "failed" /\ error = "http")
    /\ phase = "done" => load_bar.n = Cardinality(visited)
    /\ \A d \in AllDistributions : calls[d].add = IF d \in visited THEN 1 ELSE 0

\* a second artifact was inserted and its GET is going on: completed is one
\* behind the visited-set
C17_Witness ==
    /\ At("recurse", "get")
    /\ load_bar.n = 1 /\ Cardinality(visited) = 2

\* the download of d is going on: recurse has called d.download() (or is
\* about to) and it has not returned
Downloading(d) ==
    /\ Running /\ stack # <<>>
    /\ Top.fn = "recurse" /\ Top.distribution = d
    /\ Top.pc \in {"download", "get"}

\* C18 (visited artifacts are on disk): every artifact in the visited-set has
\* a file at its destination, in a directory that exists, but for the one
\* whose download is going on (or has just ended the run with an error); when
\* a run completes without error every visited artifact has its file.
C18_VisitedOnDisk ==
    /\ \A d \in visited :
        \/ disk[dest(d)] # Absent /\ <<d.package.name>> \in dirs
        \/ Downloading(d)
        \/ phase = "failed" /\ error = "http" /\ calls[d].get = 1
    /\ Cardinality({d \in visited : disk[dest(d)] = Absent}) <= 1
    /\ phase = "done" => \A d \in visited : disk[dest(d)] # Absent

\* one artifact of the visited-set has its file, and the GET of a second one
\* is going on
C18_Witness ==
    /\ At("recurse", "get")
    /\ disk[dest(Top.distribution)] = Absent
    /\ \E d \in visited : d # Top.distribution /\ disk[dest(d)] # Absent

\* the step is the GET of d's url
GetOf(d) == calls'[d].get = calls[d].get + 1

\* C19 (a failed download leaves no file): when the GET of an artifact's url
\* fails, the run ends with no file at the destination, whose parent
\* directory exists, and with the disk as it was; the start of a later run
\* leaves the disk as it is; and in every run the download of an artifact
\* without a file at its destination sends the GET and does not skip it.
C19_FailedDownloadNoFile ==
    [][/\ \A d \in AllDistributions :
            /\ (GetOf(d) /\ error' = "http") =>
                /\ phase' = "failed"
                /\ disk'[dest(d)] = Absent
                /\ disk' = disk /\ served' = served
                /\ dirs' = dirs /\ <<d.package.name>> \in dirs'
            /\ (DownloadOf(d) /\ disk[dest(d)] = Absent) =>
                /\ At("recurse", "get")' /\ Top'.distribution = d
            /\ (At("recurse", "get") /\ Top.distribution = d) => GetOf(d)
       /\ ~Running => disk' = disk /\ dirs \subseteq dirs']_vars

\* a run after a failed one is about to download the only artifact of a
\* package whose directory exists and holds no file: an earlier download of
\* it has failed
C19_Witness ==
    /\ prior = "failed"
    /\ At("recurse", "download")
    /\ LET d == Top.distribution
       IN  /\ disk[dest(d)] = Absent
           /\ <<d.package.name>> \in dirs
           /\ \A p \in Dests : p[1] = d.package.name => disk[p] = Absent
           /\ Cardinality(ArtifactsOf(d.package)) = 1

\* run is in its second loop, over the dependencies of the last root artifact
TrailingLoop == Running /\ stack # <<>> /\ stack[1].pc \in {"deps", "dep", "dd"}

\* C20 (the trailing loop of run is redundant): after the loop over the root
\* package's artifacts, no step of the run adds to the visited-set, writes a
\* file, calls download, sends a GET or changes the bar; every recurse call
\* of the loop is for an artifact in the visited-set and returns at the guard.
C20_TrailingLoopRedundant ==
    [][TrailingLoop =>
        /\ visited' = visited
        /\ disk' = disk /\ dirs' = dirs /\ served' = served
        /\ load_bar' = load_bar
        /\ \A d \in AllDistributions :
            /\ calls'[d].add = calls[d].add
            /\ calls'[d].download = calls[d].download
            /\ calls'[d].get = calls[d].get
        /\ Len(stack') <= 2
        /\ Len(stack') = 2 =>
            /\ Top'.fn = "recurse" /\ Top'.pc = "enter"
            /\ Top'.distribution \in visited]_vars

\* the trailing loop has called recurse for the second artifact of a
\* dependency of the last root artifact
C20_Witness ==
    /\ TrailingLoop /\ Len(stack) = 2
    /\ Revisit
    /\ stack[1].pc = "dd" /\ stack[1].k = 3
    /\ Top.distribution.package # Package(RootName)

====
